---- MODULE Spec2Model ----
(***************************************************************************)
(* The lookup gateway: pages/api/lookup.js (handler, checkRateLimit,       *)
(* validateMobileNumber) over the api_keys and api_usage_logs tables of    *)
(* lib/db.js.  Every database round trip (every await) is one step of a    *)
(* request, so concurrent requests interleave at exactly the points where  *)
(* the code yields.  Spec serves one request at a time over every kind of  *)
(* request and key row; SpecPar serves lookups of one live key in all      *)
(* slots at once; SpecHour starts with a full log inside an hour;          *)
(* SpecFault lets any query be rejected by the store; SpecSession runs the *)
(* session functions of lib/auth.js over the key-value store; SpecAdmin    *)
(* runs the admin endpoints (users PUT, revoke-key, create-key, the keys   *)
(* listing) beside lookups; SpecGuard calls the mutating admin endpoints   *)
(* (users POST and PUT, change-password, revoke-key, create-key) with      *)
(* valid, run-out and unknown cookies; SpecCreate looks up with the        *)
(* secrets of created keys; SpecClean applies the cleaning of an upstream  *)
(* list to bounded lists.                                                  *)
(***************************************************************************)
EXTENDS Integers, Sequences, FiniteSets, TLC

(* ------------------------------ bounds --------------------------------- *)
NumReq == 2          \* request slots that may be in flight together
MaxLimit == 2        \* largest daily_limit of a key row
MaxNewRecords == 2   \* usage records written on top of the initial log
MaxTick == 2         \* ticks the clock makes on its first day
MaxDay == 2          \* last calendar day the clock reaches
TicksPerHour == 4    \* clock resolution: ticks per hour

(* ------------------------- program constants --------------------------- *)
IpLimit == 100       \* part_002:18
RetryAfter == 60     \* part_002:135
NoExpiry == -1       \* expires_at IS NULL (db.js:21)

TicksPerDay == 24 * TicksPerHour
Day(t) == t \div TicksPerDay
T0 == TicksPerDay    \* the clock starts at midnight of day 1

Req == 1..NumReq
KeyIds == {1, 2}
UserIds == {1}
IPs == {"ip1", "ip2"}
Mobile == <<9, 8, 7, 6, 5, 4, 3, 2, 1, 0>>

Request(method, key, number, ip) ==
    [method |-> method, key |-> key, number |-> number, ip |-> ip]

(* The requests that arrive: lookups with the secret of key 1 from either  *)
(* address, lookups with the secret of key 2 and with one no row has from  *)
(* the first address; and one request for each way of being turned away    *)
(* before the key is looked up.                                            *)
Lookups == {Request("GET", "k1", Mobile, ip) : ip \in IPs}
               \cup {Request("GET", key, Mobile, "ip1") : key \in {"k2", "k9"}}
Malformed == { Request("OPTIONS", "k1", Mobile, "ip1"),
               Request("POST", "k1", Mobile, "ip1"),
               Request("DELETE", "k1", Mobile, "ip1"),
               Request("GET", "", Mobile, "ip1"),
               Request("GET", "k1", <<>>, "ip1"),
               Request("GET", "k1", <<1, 2, 3, 4, 5>>, "ip1"),
               Request("GET", "k1", <<5, 8, 7, 6, 5, 4, 3, 2, 1, 0>>, "ip1") }
Requests == Lookups \cup Malformed

(* lib/auth.js hashApiKey: a one-way digest; distinct secrets have         *)
(* distinct digests (collision resistance of SHA-256).                     *)
hashApiKey(apiKey) == <<"sha256", apiKey>>

(* the number test without the test of the first digit                     *)
validateMobileNumber_AnyFirstDigit(number) ==
    /\ Len(number) = 10
    /\ \A i \in 1..Len(number) : number[i] \in 0..9

(* part_002 validateMobileNumber: /^[6-9]\d{9}$/                           *)
validateMobileNumber(number) ==
    /\ Len(number) = 10
    /\ number[1] \in 6..9
    /\ \A i \in 1..Len(number) : number[i] \in 0..9

(* ----------------------------- messages -------------------------------- *)
ErrInvalidNumber == "Invalid mobile number. Must be 10 digits starting with 6-9."
ErrRateLimit == "Rate limit exceeded. Too many requests from this IP."
ErrQuota == "Daily quota exceeded for this API key."
(* the message of the error a rejected query is thrown with: it holds      *)
(* none of the phrases the catch block looks for                           *)
ErrStore == "connection terminated unexpectedly"

(* error.message.includes(needle) for the messages thrown in the handler   *)
Includes(message, needle) ==
    \/ message = ErrInvalidNumber /\ needle = "Invalid mobile number"
    \/ message = ErrRateLimit /\ needle = "Rate limit"
    \/ message = ErrQuota /\ needle = "quota"

(* part_002 lines 176-194: the status the catch block selects              *)
CatchStatus(message) ==
    IF Includes(message, "Invalid mobile number") THEN 400
    ELSE IF Includes(message, "Rate limit") THEN 429
    ELSE IF Includes(message, "quota") THEN 429
    ELSE IF Includes(message, "paused") THEN 403
    ELSE IF Includes(message, "expired") THEN 401
    ELSE 400

CatchMessage(message) ==
    IF Includes(message, "Invalid mobile number") THEN "Invalid mobile number format"
    ELSE IF Includes(message, "Rate limit") THEN "Rate limit exceeded"
    ELSE IF Includes(message, "quota") THEN "Daily quota exceeded"
    ELSE IF Includes(message, "paused") THEN "Service temporarily suspended"
    ELSE IF Includes(message, "expired") THEN "Authentication failed"
    ELSE "Bad request"

(* Identifiers the catch block of the handler can resolve: the const       *)
(* declarations of the function body (req, res, key, number) and its own   *)
(* locals.  keyHash, apiKeyInfo, clientIp, startTime and baseResponse are  *)
(* declared with const/let inside the try block and are not visible here.  *)
CatchScope == {"req", "res", "key", "number", "error", "statusCode", "errorMessage"}

(* ------------------------------- state --------------------------------- *)
VARIABLES
    keys,        \* api_keys: id -> row
    users,       \* users: id -> row
    kv,          \* the session store: session id -> stored record
    adm,         \* the last call of a session function or admin endpoint
    log,         \* api_usage_logs as a bag: record -> number of copies
    now,         \* the clock, in ticks
    pc,          \* per request slot: the await the request is parked at
    rq,          \* per slot: the request (method, key, number, ip)
    apiKeyInfo,  \* per slot: the row getApiKey returned (id 0: none)
    incr,        \* per slot: incrementApiUsage's today and chosen branch
    fx,          \* per slot: what the request did so far
    resp,        \* per slot: the response sent
    cleaning     \* an upstream list, the queried number and what the cleaning made

vars == <<keys, users, kv, adm, log, now, pc, rq, apiKeyInfo, incr, fx, resp, cleaning>>

(* Of the row getApiKey returns the handler reads id, is_paused and        *)
(* expires_at; the other columns are read again by the later queries.      *)
NoRow == [id |-> 0, expires_at |-> NoExpiry, is_paused |-> FALSE]
NoRequest == Request("GET", "", <<>>, "ip1")
NoIncr == [today |-> 0, reset |-> FALSE]
(* What a request did: the day it arrived, whether its key's expiry lay in *)
(* the past when the handler checked it, the message of the error its      *)
(* catch block caught, the upstream reply and the number of upstream       *)
(* calls, the usage records it wrote and their status, its quota           *)
(* increments and the day incrementApiUsage took as today.                 *)
NoFx == [arrived |-> 0, expired |-> FALSE, caught |-> "", upstream |-> "none",
         calls |-> 0, logged |-> 0, outcome |-> "none", consumed |-> 0, day |-> 0]
NoResp == [status |-> 0, error |-> "", retryAfter |-> 0, thrown |-> FALSE, json |-> FALSE]

Response(status, error) ==
    [status |-> status, error |-> error, retryAfter |-> 0, thrown |-> FALSE, json |-> TRUE]

(* res.status(status).end(): no body                                       *)
Ended(status) == [Response(status, "") EXCEPT !.json = FALSE]

(* the handler's promise rejected: the framework answers 500               *)
Unhandled == [status |-> 500, error |-> "Internal Server Error", retryAfter |-> 0,
              thrown |-> TRUE, json |-> FALSE]

(* the session store with no session in it                                 *)
NoSessions == <<>>
(* no upstream list is being cleaned                                       *)
NoCleaning == [data |-> <<>>, number |-> "", done |-> FALSE, thrown |-> FALSE,
               cleanedData |-> <<>>, results |-> 0]
(* What the last call of a session function or of an admin endpoint was    *)
(* and returned: the session id it was given, whether validateSession      *)
(* returned an identity, the status and key id of an endpoint's response   *)
(* and the key secrets that appear in its body; and the issued session     *)
(* ids destroySession has been called with so far; for revoke-key,         *)
(* whether the row was found revoked already.                              *)
NoCall == [op |-> "none", sid |-> 0, valid |-> FALSE, status |-> 0, key_id |-> 0,
           shown |-> {}, again |-> FALSE, destroyed |-> {}]

(* ------------------------------ the store ------------------------------ *)
(* db.js getApiKey: api_keys JOIN users WHERE key_hash = keyHash           *)
getApiKey(keyHash) ==
    LET hit == {k \in DOMAIN keys : keys[k].key_hash = keyHash /\ keys[k].user_id \in DOMAIN users}
    IN  IF hit = {} THEN NoRow
        ELSE LET k == CHOOSE k \in hit : TRUE
             IN  [id |-> k, expires_at |-> keys[k].expires_at,
                  is_paused |-> keys[k].is_paused]

RECURSIVE Copies(_, _)
Copies(bag, S) ==
    IF S = {} THEN 0
    ELSE LET x == CHOOSE x \in S : TRUE IN bag[x] + Copies(bag, S \ {x})

LogSize == Copies(log, DOMAIN log)

\* the count taken over the records of every address
IpUsage_AnyAddress(ip) ==
    Copies(log, {u \in DOMAIN log : u.created_at > now - TicksPerHour})

\* part_002 lines 15-16: the number of usage records WHERE ip_address = ip
\*                       AND created_at > NOW() - INTERVAL '1 hour'
IpUsage(ip) ==
    Copies(log, {u \in DOMAIN log : u.ip_address = ip /\ u.created_at > now - TicksPerHour})

UsageRecord(apiKeyId, status, ip) ==
    [api_key_id |-> apiKeyId, status |-> status, ip_address |-> ip, created_at |-> now]

(* logUsage keeping the new record only                                    *)
logUsage_Replace(apiKeyId, status, ip) ==
    (UsageRecord(apiKeyId, status, ip) :> 1)

(* db.js logUsage: INSERT INTO api_usage_logs                              *)
logUsage(apiKeyId, status, ip) ==
    LET u == UsageRecord(apiKeyId, status, ip)
    IN  IF u \in DOMAIN log THEN [log EXCEPT ![u] = @ + 1] ELSE log @@ (u :> 1)

(* ------------------------------- Init ---------------------------------- *)
(* The log starts one record short of the per-IP ceiling: lookups with key *)
(* 2 from the first address whose upstream call failed, all made at T0.    *)
(* Key 1 starts with any paused flag, no expiry or one just before or just *)
(* after T0, any budget up to MaxLimit and any part of it used today.      *)
InitialRecords == IpLimit - 1

(* lib/auth.js hashPassword: the bcrypt hash of a password, told apart by  *)
(* the password it was made of                                             *)
hashPassword(password) == [bcrypt |-> password]

(* the administrator the schema starts with (db.js lines 66-76)            *)
UserRow(active) ==
    [username |-> "admin", password_hash |-> hashPassword("admin123"), is_active |-> active]

KeyRow(secret, paused, expires, limit, used, reset) ==
    [api_key |-> secret, key_hash |-> hashApiKey(secret), user_id |-> 1, expires_at |-> expires,
     is_paused |-> paused, daily_limit |-> limit, daily_used |-> used,
     last_reset_date |-> reset]

Init ==
    /\ \E paused \in BOOLEAN, expires \in {NoExpiry, T0 - 1, T0 + 1},
          limit \in 1..MaxLimit :
          \E used \in 0..limit :
             keys = [k \in KeyIds |->
                       IF k = 1 THEN KeyRow("k1", paused, expires, limit, used, Day(T0))
                       ELSE KeyRow("k2", FALSE, NoExpiry, MaxLimit, 0, Day(T0))]
    /\ users = [u \in UserIds |-> UserRow(TRUE)]
    /\ kv = NoSessions
    /\ adm = NoCall
    /\ cleaning = NoCleaning
    /\ now = T0
    /\ log = (UsageRecord(2, "error", "ip1") :> InitialRecords)
    /\ pc = [r \in Req |-> "idle"]
    /\ rq = [r \in Req |-> NoRequest]
    /\ apiKeyInfo = [r \in Req |-> NoRow]
    /\ incr = [r \in Req |-> NoIncr]
    /\ fx = [r \in Req |-> NoFx]
    /\ resp = [r \in Req |-> NoResp]

(* ---------------------------- the handler ------------------------------ *)
InFlight == {r \in Req : pc[r] \notin {"idle", "done"}}

Finish(r, response) ==
    /\ pc' = [pc EXCEPT ![r] = "done"]
    /\ resp' = [resp EXCEPT ![r] = response]

(* part_002 lines 172-203: the catch block.  It picks the status from the  *)
(* message, then evaluates apiKeyInfo?.id: with apiKeyInfo out of scope    *)
(* that is a ReferenceError thrown out of the handler; were it in scope,   *)
(* a resolved key would get an 'error' usage record before the response.   *)
Catch(r, message, info, f) ==
    IF "apiKeyInfo" \in CatchScope
    THEN /\ Finish(r, Response(CatchStatus(message), CatchMessage(message)))
         /\ IF info.id # 0
            THEN /\ log' = logUsage(info.id, "error", rq[r].ip)
                 /\ fx' = [fx EXCEPT ![r] = [f EXCEPT !.caught = message,
                                                      !.logged = @ + 1,
                                                      !.outcome = "error"]]
            ELSE /\ fx' = [fx EXCEPT ![r] = [f EXCEPT !.caught = message]]
                 /\ UNCHANGED log
    ELSE /\ Finish(r, Unhandled)
         /\ fx' = [fx EXCEPT ![r] = [f EXCEPT !.caught = message]]
         /\ UNCHANGED log

Arrived == [NoFx EXCEPT !.arrived = Day(now)]

(* the method checks letting POST on, as the CORS header announces         *)
MethodCheck_PostAllowed(method) ==
    IF method = "OPTIONS" THEN Ended(200)
    ELSE IF method \notin {"GET", "POST"} THEN Response(405, "Method not allowed")
    ELSE NoResp

(* part_002 lines 51-60: the response the method checks send; NoResp when  *)
(* they let the request on                                                 *)
MethodCheck(method) ==
    IF method = "OPTIONS" THEN Ended(200)
    ELSE IF method # "GET" THEN Response(405, "Method not allowed")
    ELSE NoResp

(* part_002 lines 45-80: a request arrives; method and parameter checks,   *)
(* number validation, then the key lookup is issued.  Requests arrive      *)
(* while the log has room for a record of every request in flight.         *)
Arrive(r, requests) ==
    /\ pc[r] \in {"idle", "done"}
    /\ (LogSize - InitialRecords) + Cardinality(InFlight) < MaxNewRecords
    /\ \E request \in requests :
        /\ rq' = [rq EXCEPT ![r] = request]
        /\ apiKeyInfo' = [apiKeyInfo EXCEPT ![r] = NoRow]
        /\ incr' = [incr EXCEPT ![r] = NoIncr]
        /\ IF MethodCheck(request.method) # NoResp
           THEN /\ Finish(r, MethodCheck(request.method))
                /\ fx' = [fx EXCEPT ![r] = Arrived]
                /\ UNCHANGED log
           ELSE IF request.key = "" \/ request.number = <<>>
           THEN /\ Finish(r, Response(400, "Missing required parameters"))
                /\ fx' = [fx EXCEPT ![r] = Arrived]
                /\ UNCHANGED log
           ELSE IF ~validateMobileNumber(request.number)
           THEN Catch(r, ErrInvalidNumber, NoRow, Arrived)
           ELSE /\ pc' = [pc EXCEPT ![r] = "getApiKey"]
                /\ resp' = [resp EXCEPT ![r] = NoResp]
                /\ fx' = [fx EXCEPT ![r] = Arrived]
                /\ UNCHANGED log
    /\ UNCHANGED <<keys, users, kv, adm, cleaning, now>>

Start(r) == Arrive(r, Requests)

(* an expiry that is set and lies before t                                 *)
InThePast(expires_at, t) == expires_at # NoExpiry /\ expires_at < t

(* the key checks with the expiry test moved before the paused test        *)
KeyChecks_ExpiryFirst(info, t) ==
    IF info.id = 0
    THEN Response(401, "Invalid or expired API key")
    ELSE IF info.expires_at # NoExpiry /\ info.expires_at < t
    THEN Response(401, "API key has expired")
    ELSE IF info.is_paused
    THEN Response(403, "API key is currently paused")
    ELSE NoResp

(* the key checks with the expiry comparison turned round                  *)
KeyChecks_ExpiryFlipped(info, t) ==
    IF info.id = 0
    THEN Response(401, "Invalid or expired API key")
    ELSE IF info.is_paused
    THEN Response(403, "API key is currently paused")
    ELSE IF info.expires_at # NoExpiry /\ info.expires_at > t
    THEN Response(401, "API key has expired")
    ELSE NoResp

(* the key checks without the paused test                                  *)
KeyChecks_NoPause(info, t) ==
    IF info.id = 0
    THEN Response(401, "Invalid or expired API key")
    ELSE IF info.expires_at # NoExpiry /\ info.expires_at < t
    THEN Response(401, "API key has expired")
    ELSE NoResp

(* the key checks letting a row through that is paused and expired at once *)
KeyChecks_RevokedPasses(info, t) ==
    IF info.id = 0
    THEN Response(401, "Invalid or expired API key")
    ELSE IF info.is_paused /\ info.expires_at # NoExpiry /\ info.expires_at < t
    THEN NoResp
    ELSE IF info.is_paused
    THEN Response(403, "API key is currently paused")
    ELSE IF info.expires_at # NoExpiry /\ info.expires_at < t
    THEN Response(401, "API key has expired")
    ELSE NoResp

(* part_002 lines 81-99: the response the key checks send for the row     *)
(* getApiKey returned, at clock t; NoResp when they let the request on.    *)
KeyChecks(info, t) ==
    IF info.id = 0
    THEN Response(401, "Invalid or expired API key")
    ELSE IF info.is_paused
    THEN Response(403, "API key is currently paused")
    ELSE IF info.expires_at # NoExpiry /\ info.expires_at < t
    THEN Response(401, "API key has expired")
    ELSE NoResp

(* part_002 lines 80-103: getApiKey returns; not found, paused and expiry  *)
(* checks; then checkRateLimit issues the per-IP count.                    *)
Resolve(r) ==
    /\ pc[r] = "getApiKey"
    /\ LET info == getApiKey(hashApiKey(rq[r].key))
       IN  /\ apiKeyInfo' = [apiKeyInfo EXCEPT ![r] = info]
           /\ fx' = [fx EXCEPT ![r].expired = InThePast(info.expires_at, now)]
           /\ IF KeyChecks(info, now) # NoResp
              THEN Finish(r, KeyChecks(info, now))
              ELSE /\ pc' = [pc EXCEPT ![r] = "ipUsage"]
                   /\ UNCHANGED resp
    /\ UNCHANGED <<keys, users, kv, adm, cleaning, log, now, rq, incr>>

(* part_002 lines 13-20: the per-IP count returns and is compared          *)
IpCheck(r) ==
    /\ pc[r] = "ipUsage"
    /\ IF IpUsage(rq[r].ip) >= IpLimit
       THEN Catch(r, ErrRateLimit, apiKeyInfo[r], fx[r])
       ELSE /\ pc' = [pc EXCEPT ![r] = "keyInfo"]
            /\ UNCHANGED <<log, fx, resp>>
    /\ UNCHANGED <<keys, users, kv, adm, cleaning, now, rq, apiKeyInfo, incr>>

(* part_002 lines 22-28: the key's daily_used/daily_limit are read and     *)
(* compared; on success the upstream call is issued.                       *)
QuotaCheck(r) ==
    /\ pc[r] = "keyInfo"
    /\ LET keyInfo == keys[apiKeyInfo[r].id]
       IN  IF keyInfo.daily_used >= keyInfo.daily_limit
           THEN Catch(r, ErrQuota, apiKeyInfo[r], fx[r])
           ELSE /\ pc' = [pc EXCEPT ![r] = "axios"]
                /\ UNCHANGED <<log, fx, resp>>
    /\ UNCHANGED <<keys, users, kv, adm, cleaning, now, rq, apiKeyInfo, incr>>

(* What the upstream call can come back with: a timeout, a non-2xx status, *)
(* or a 2xx status with some body.                                         *)
UpstreamReplies == {"timeout", "non2xx", "null", "string", "noData", "dataNotList", "dataList"}

(* the structure check without its Array.isArray test                      *)
ValidBaseResponse_NoListTest(reply) ==
    ~ ( \/ reply = "null"
        \/ reply = "string"
        \/ reply = "noData" )

(* part_002 line 123: the structure check on a 2xx body                    *)
ValidBaseResponse(reply) ==
    ~ ( \/ reply = "null"
        \/ reply = "string"
        \/ reply = "noData"
        \/ reply = "dataNotList" )

(* the upstream call made again after a timeout                            *)
Upstream_Retry(r) ==
    /\ pc[r] = "axios"
    /\ \E reply \in UpstreamReplies :
        /\ fx' = [fx EXCEPT ![r].upstream = reply, ![r].calls = @ + 1]
        /\ IF reply = "timeout" /\ fx[r].calls = 0
           THEN pc' = pc
           ELSE IF reply \in {"timeout", "non2xx"} \/ ~ValidBaseResponse(reply)
           THEN pc' = [pc EXCEPT ![r] = "logError"]
           ELSE pc' = [pc EXCEPT ![r] = "incrRead"]
    /\ UNCHANGED <<keys, users, kv, adm, cleaning, log, now, rq, apiKeyInfo, incr, resp>>

(* part_002 lines 109-127: axios.get resolves or rejects                   *)
Upstream(r) ==
    /\ pc[r] = "axios"
    /\ \E reply \in UpstreamReplies :
        /\ fx' = [fx EXCEPT ![r].upstream = reply, ![r].calls = @ + 1]
        /\ IF reply \in {"timeout", "non2xx"} \/ ~ValidBaseResponse(reply)
           THEN pc' = [pc EXCEPT ![r] = "logError"]
           ELSE pc' = [pc EXCEPT ![r] = "incrRead"]
    /\ UNCHANGED <<keys, users, kv, adm, cleaning, log, now, rq, apiKeyInfo, incr, resp>>

(* baseApiError.message in the inner catch: the message axios rejects      *)
(* with, or the one line 124 throws for a 2xx body of the wrong structure  *)
BaseApiErrorMessage(reply) ==
    IF reply = "timeout" THEN "timeout of 10000ms exceeded"
    ELSE IF reply = "non2xx" THEN "Request failed with status code 502"
    ELSE "Invalid base API response format"

(* the 503 body carrying the message of the failure                        *)
ServiceUnavailable_Echo(message) ==
    [status |-> 503, error |-> message, retryAfter |-> RetryAfter, thrown |-> FALSE,
     json |-> TRUE]

(* part_002 lines 133-136: the body sent after a failed upstream call; the *)
(* message goes to console.error only                                      *)
ServiceUnavailable(message) ==
    [status |-> 503,
     error |-> "Service temporarily unavailable. Please try again later.",
     retryAfter |-> RetryAfter, thrown |-> FALSE, json |-> TRUE]

(* part_002 lines 127-137: the failure is logged, then 503                 *)
LogError(r) ==
    /\ pc[r] = "logError"
    /\ log' = logUsage(apiKeyInfo[r].id, "error", rq[r].ip)
    /\ fx' = [fx EXCEPT ![r].logged = @ + 1, ![r].outcome = "error"]
    /\ Finish(r, ServiceUnavailable(BaseApiErrorMessage(fx[r].upstream)))
    /\ UNCHANGED <<keys, users, kv, adm, cleaning, now, rq, apiKeyInfo, incr>>

(* db.js lines 126-131: incrementApiUsage takes today and reads            *)
(* last_reset_date; the comparison picks the UPDATE to send.               *)
IncrRead(r) ==
    /\ pc[r] = "incrRead"
    /\ LET today == Day(now)
       IN  incr' = [incr EXCEPT ![r] =
                      [today |-> today,
                       reset |-> keys[apiKeyInfo[r].id].last_reset_date # today]]
    /\ pc' = [pc EXCEPT ![r] = "incrWrite"]
    /\ UNCHANGED <<keys, users, kv, adm, cleaning, log, now, rq, apiKeyInfo, fx, resp>>

(* the reset UPDATE moving last_reset_date but counting on from the old    *)
(* daily_used                                                              *)
UsageUpdate_KeepCount(row, reset, today) ==
    IF reset
    THEN [row EXCEPT !.daily_used = @ + 1, !.last_reset_date = today]
    ELSE [row EXCEPT !.daily_used = @ + 1]

(* db.js lines 132-142: the two UPDATE statements, applied to a row        *)
UsageUpdate(row, reset, today) ==
    IF reset
    THEN [row EXCEPT !.daily_used = 1, !.last_reset_date = today]
    ELSE [row EXCEPT !.daily_used = @ + 1]

(* db.js lines 131-143: the chosen UPDATE runs                             *)
IncrWrite(r) ==
    /\ pc[r] = "incrWrite"
    /\ LET id == apiKeyInfo[r].id
       IN  keys' = [keys EXCEPT ![id] = UsageUpdate(@, incr[r].reset, incr[r].today)]
    /\ incr' = [incr EXCEPT ![r] = NoIncr]
    /\ fx' = [fx EXCEPT ![r].consumed = @ + 1, ![r].day = incr[r].today]
    /\ pc' = [pc EXCEPT ![r] = "logSuccess"]
    /\ UNCHANGED <<users, kv, adm, cleaning, log, now, rq, apiKeyInfo, resp>>

(* part_002 lines 152-170: the success record is written, then 200         *)
LogSuccess(r) ==
    /\ pc[r] = "logSuccess"
    /\ log' = logUsage(apiKeyInfo[r].id, "success", rq[r].ip)
    /\ fx' = [fx EXCEPT ![r].logged = @ + 1, ![r].outcome = "success"]
    /\ Finish(r, Response(200, ""))
    /\ UNCHANGED <<keys, users, kv, adm, cleaning, now, rq, apiKeyInfo, incr>>

(* ------------------------------ the clock ------------------------------ *)
Tick ==
    /\ now < T0 + MaxTick
    /\ now' = now + 1
    /\ UNCHANGED <<keys, users, kv, adm, cleaning, log, pc, rq, apiKeyInfo, incr, fx, resp>>

(* the rest of the day passes with no request                              *)
Midnight ==
    /\ Day(now) < MaxDay
    /\ now' = (Day(now) + 1) * TicksPerDay
    /\ UNCHANGED <<keys, users, kv, adm, cleaning, log, pc, rq, apiKeyInfo, incr, fx, resp>>

Pipeline(r) ==
    \/ Resolve(r)
    \/ IpCheck(r)
    \/ QuotaCheck(r)
    \/ Upstream(r)
    \/ LogError(r)
    \/ IncrRead(r)
    \/ IncrWrite(r)
    \/ LogSuccess(r)

(* one request at a time                                                   *)
Next ==
    \/ Start(1)
    \/ Pipeline(1)
    \/ Tick
    \/ Midnight

Spec == Init /\ [][Next]_vars

(* ------------------------- concurrent requests ------------------------- *)
(* Lookups with the secret of key 1, in flight together in every slot;     *)
(* key 1 is live and its counter was last reset yesterday or today.        *)
InitPar ==
    /\ \E used \in 0..MaxLimit, reset \in {Day(T0) - 1, Day(T0)} :
          keys = [k \in KeyIds |->
                    IF k = 1 THEN KeyRow("k1", FALSE, NoExpiry, MaxLimit, used, reset)
                    ELSE KeyRow("k2", FALSE, NoExpiry, MaxLimit, 0, Day(T0))]
    /\ users = [u \in UserIds |-> UserRow(TRUE)]
    /\ kv = NoSessions
    /\ adm = NoCall
    /\ cleaning = NoCleaning
    /\ now = T0
    /\ log = (UsageRecord(2, "error", "ip1") :> InitialRecords)
    /\ pc = [r \in Req |-> "idle"]
    /\ rq = [r \in Req |-> NoRequest]
    /\ apiKeyInfo = [r \in Req |-> NoRow]
    /\ incr = [r \in Req |-> NoIncr]
    /\ fx = [r \in Req |-> NoFx]
    /\ resp = [r \in Req |-> NoResp]

StartPar(r) == Arrive(r, {Request("GET", "k1", Mobile, ip) : ip \in IPs})

NextPar ==
    \/ \E r \in Req : StartPar(r) \/ Pipeline(r)
    \/ Tick
    \/ Midnight

SpecPar == InitPar /\ [][NextPar]_vars

(* ------------------------- across an hour end -------------------------- *)
(* The clock starts on the last tick of the last hour before day 1 and     *)
(* the log holds the records of IpLimit - 1 lookups made at that moment;   *)
(* key 1 is live with its whole budget left.                               *)
InitHour ==
    /\ keys = [k \in KeyIds |->
                 IF k = 1 THEN KeyRow("k1", FALSE, NoExpiry, MaxLimit, 0, Day(T0 - 1))
                 ELSE KeyRow("k2", FALSE, NoExpiry, MaxLimit, 0, Day(T0 - 1))]
    /\ users = [u \in UserIds |-> UserRow(TRUE)]
    /\ kv = NoSessions
    /\ adm = NoCall
    /\ cleaning = NoCleaning
    /\ now = T0 - 1
    /\ log = (UsageRecord(2, "error", "ip1") :> InitialRecords)
    /\ pc = [r \in Req |-> "idle"]
    /\ rq = [r \in Req |-> NoRequest]
    /\ apiKeyInfo = [r \in Req |-> NoRow]
    /\ incr = [r \in Req |-> NoIncr]
    /\ fx = [r \in Req |-> NoFx]
    /\ resp = [r \in Req |-> NoResp]

SpecHour == InitHour /\ [][Next]_vars

(* --------------------------- store failures ---------------------------- *)
(* The awaits of the handler that are round trips to the store: getApiKey, *)
(* the two queries of checkRateLimit, the two of incrementApiUsage and the *)
(* two calls of logUsage in the try block.                                 *)
StoreAwaits ==
    {"getApiKey", "ipUsage", "keyInfo", "logError", "incrRead", "incrWrite", "logSuccess"}

(* The query the request is waiting for is rejected: the error propagates  *)
(* to the catch block of the handler (from line 131 too: the inner catch   *)
(* has no handler of its own around logUsage).  Nothing is written.        *)
StoreFault(r) ==
    /\ pc[r] \in StoreAwaits
    /\ Catch(r, ErrStore, apiKeyInfo[r], fx[r])
    /\ incr' = [incr EXCEPT ![r] = NoIncr]
    /\ UNCHANGED <<keys, users, kv, adm, cleaning, now, rq, apiKeyInfo>>

(* lookups with the secret of key 1 from the first address, their number   *)
(* well-formed or too short                                                *)
StartFault(r) ==
    Arrive(r, {Request("GET", "k1", number, "ip1") : number \in {Mobile, <<1, 2, 3, 4, 5>>}})

(* one request at a time, any query of which may be rejected               *)
NextFault ==
    \/ StartFault(1)
    \/ Pipeline(1)
    \/ StoreFault(1)
    \/ Tick
    \/ Midnight

SpecFault == InitPar /\ [][NextFault]_vars

(* ------------------------------ sessions ------------------------------- *)
(* lib/auth.js over the key-value store.  A duration in seconds, in ticks  *)
Seconds(s) == (s * TicksPerHour) \div 3600

TokenTtl == Seconds(24 * 60 * 60)   \* auth.js line 19: exp
SessionTtl == Seconds(86400)        \* auth.js line 61: setex
RenewTtl == Seconds(1800)           \* auth.js line 86: expire

(* Session ids: the id createSession draws (a random UUID, never drawn     *)
(* twice), one that was never issued, and the absent cookie.               *)
NoSession == 0
SessionIds == {1}
UnknownSession == 2

(* auth.js generateToken: the signed payload, issued at t                  *)
generateToken(userId, t) == [userId |-> userId, iat |-> t, exp |-> t + TokenTtl]

NoToken == [userId |-> 0, iat |-> 0, exp |-> 0]

(* the verification of a token without the test of its exp                *)
verifyToken_NoExpiry(token, t) == token

(* auth.js verifyToken: jwt.verify of a token signed with JWT_SECRET       *)
(* returns the payload until the clock reaches exp, and then null          *)
verifyToken(token, t) == IF t < token.exp THEN token ELSE NoToken

(* kv.get: the record stored under the session id, while it is there and   *)
(* its time to live has not run out                                        *)
kvHas(store, sessionId, t) ==
    /\ sessionId \in DOMAIN store
    /\ store[sessionId].present
    /\ t < store[sessionId].expires

(* kv.expire: the time to live of a record that is there is set to         *)
(* seconds from t                                                          *)
kvExpire(store, sessionId, seconds, t) ==
    IF kvHas(store, sessionId, t)
    THEN [store EXCEPT ![sessionId].expires = t + Seconds(seconds)]
    ELSE store

(* kv.del with the record's time to live cut to the renewal window         *)
(* instead                                                                 *)
kvDel_Expire(store, sessionId, t) ==
    kvExpire(store, sessionId, 1800, t)

(* kv.del: the record, if there is one, is removed                         *)
kvDel(store, sessionId, t) ==
    IF sessionId \in DOMAIN store
    THEN [store EXCEPT ![sessionId].present = FALSE]
    ELSE store

(* auth.js validateSession, lines 74-94: the identity it returns at t,     *)
(* NoToken for null                                                        *)
validateSession(sessionId, t) ==
    IF sessionId = NoSession THEN NoToken
    ELSE IF ~kvHas(kv, sessionId, t) THEN NoToken
    ELSE LET session == kv[sessionId]
             decoded == verifyToken(session.token, t)
         IN  IF decoded # NoToken /\ decoded.userId = session.userId
             THEN decoded
             ELSE NoToken

(* the store with the record's time to live set anew whatever              *)
(* validateSession returns                                                 *)
Renewed_Always(sessionId, t) == kvExpire(kv, sessionId, 1800, t)

(* auth.js line 86: the store after validateSession ran at t               *)
Renewed(sessionId, t) ==
    IF validateSession(sessionId, t) # NoToken
    THEN kvExpire(kv, sessionId, 1800, t)
    ELSE kv

(* the tables and request slots of the lookup handler                      *)
LookupState == <<keys, users, log, pc, rq, apiKeyInfo, incr, fx, resp, cleaning>>

(* the session ids a caller can present: those issued so far, one that     *)
(* was never issued, and none                                              *)
Cookies == DOMAIN kv \cup {UnknownSession, NoSession}

(* the record of a call of a session function                              *)
Called(op, sessionId, valid) ==
    [NoCall EXCEPT !.op = op, !.sid = sessionId, !.valid = valid,
                   !.destroyed = adm.destroyed]

(* auth.js createSession, lines 56-69; sessions are issued before the      *)
(* clock reaches T0                                                        *)
createSession(userId) ==
    /\ now < T0
    /\ \E sessionId \in SessionIds \ DOMAIN kv :
        /\ kv' = kv @@ (sessionId :> [token |-> generateToken(userId, now),
                                      userId |-> userId,
                                      expires |-> now + SessionTtl,
                                      present |-> TRUE])
        /\ adm' = Called("createSession", sessionId, TRUE)
    /\ UNCHANGED <<now, LookupState>>

(* a call of validateSession                                               *)
ValidateSession(sessionId) ==
    /\ kv' = Renewed(sessionId, now)
    /\ adm' = Called("validateSession", sessionId, validateSession(sessionId, now) # NoToken)
    /\ UNCHANGED <<now, LookupState>>

(* auth.js destroySession, lines 99-103                                    *)
destroySession(sessionId) ==
    /\ kv' = IF sessionId # NoSession THEN kvDel(kv, sessionId, now) ELSE kv
    /\ adm' = [Called("destroySession", sessionId, FALSE)
                  EXCEPT !.destroyed = @ \cup ({sessionId} \cap DOMAIN kv)]
    /\ UNCHANGED <<now, LookupState>>

(* time passes, up to MaxTick ticks beyond the life of a token             *)
SessionTick ==
    /\ now < T0 + TokenTtl + MaxTick
    /\ now' = now + 1
    /\ UNCHANGED <<kv, adm, LookupState>>

NextSession ==
    \/ \E userId \in UserIds : createSession(userId)
    \/ \E sessionId \in Cookies : ValidateSession(sessionId)
    \/ \E sessionId \in Cookies : destroySession(sessionId)
    \/ SessionTick

SpecSession == InitHour /\ [][NextSession]_vars

(* --------------------------- administration --------------------------- *)
(* The admin endpoints: users.js (PUT), revoke-key.js, create-key.js and   *)
(* keys.js.  Each validates the session of its cookie first; the store's   *)
(* statements succeed.                                                     *)

(* the record of a call of an admin endpoint and its response              *)
Answered(op, sessionId, status, key_id, shown) ==
    [NoCall EXCEPT !.op = op, !.sid = sessionId,
                   !.valid = (validateSession(sessionId, now) # NoToken),
                   !.status = status, !.key_id = key_id, !.shown = shown,
                   !.destroyed = adm.destroyed]

(* the session check without its test                                      *)
Authorized_Always(sessionId) == TRUE

(* 'if (!session) return 401' of every admin endpoint, after               *)
(* validateSession(req.cookies.admin_session)                              *)
Authorized(sessionId) == validateSession(sessionId, now) # NoToken

(* pages/api/admin/users.js, PUT: an administrator activates or            *)
(* deactivates a user (UPDATE users SET is_active = ... WHERE id = ...)    *)
PutUser(sessionId, user_id, is_active) ==
    /\ kv' = Renewed(sessionId, now)
    /\ IF ~Authorized(sessionId)
       THEN /\ adm' = Answered("users", sessionId, 401, 0, {})
            /\ UNCHANGED users
       ELSE IF user_id = 0
       THEN /\ adm' = Answered("users", sessionId, 400, 0, {})
            /\ UNCHANGED users
       ELSE IF user_id \notin DOMAIN users
       THEN /\ adm' = Answered("users", sessionId, 404, 0, {})
            /\ UNCHANGED users
       ELSE /\ users' = [users EXCEPT ![user_id].is_active = is_active]
            /\ adm' = Answered("users", sessionId, 200, 0, {})
    /\ UNCHANGED <<keys, log, now, pc, rq, apiKeyInfo, incr, fx, resp, cleaning>>

(* the UPDATE of revoke-key with the paused flag turned over instead of    *)
(* set                                                                     *)
RevokeUpdate_Toggle(row, t) ==
    [row EXCEPT !.expires_at = t - TicksPerDay, !.is_paused = ~@]

(* revoke-key.js lines 26-32: SET expires_at = NOW() - INTERVAL '1 day',   *)
(* is_paused = true                                                        *)
RevokeUpdate(row, t) ==
    [row EXCEPT !.expires_at = t - TicksPerDay, !.is_paused = TRUE]

(* revoke-key.js, DELETE: the response carries the first characters of     *)
(* the secret, not the secret                                              *)
RevokeKey(sessionId, key_id) ==
    /\ kv' = Renewed(sessionId, now)
    /\ IF ~Authorized(sessionId)
       THEN /\ adm' = Answered("revoke-key", sessionId, 401, 0, {})
            /\ UNCHANGED keys
       ELSE IF key_id = 0
       THEN /\ adm' = Answered("revoke-key", sessionId, 400, 0, {})
            /\ UNCHANGED keys
       ELSE IF key_id \notin DOMAIN keys
       THEN /\ adm' = Answered("revoke-key", sessionId, 404, key_id, {})
            /\ UNCHANGED keys
       ELSE /\ keys' = [keys EXCEPT ![key_id] = RevokeUpdate(@, now)]
            /\ adm' = [Answered("revoke-key", sessionId, 200, key_id, {})
                          EXCEPT !.again = keys[key_id].is_paused
                                           /\ InThePast(keys[key_id].expires_at, now)]
    /\ UNCHANGED <<users, log, now, pc, rq, apiKeyInfo, incr, fx, resp, cleaning>>

(* What create-key is sent: expires_in_days and daily_limit (0 when        *)
(* missing) and the owner's user_id (0 when missing).                      *)
NoUser == 0
MinDailyLimit == 10
MaxDailyLimit == 100000
MaxExpiryDays == 3650
CreateBodies ==
    { [expires_in_days |-> 1, daily_limit |-> MinDailyLimit, user_id |-> 1],
      [expires_in_days |-> 1, daily_limit |-> MinDailyLimit, user_id |-> NoUser],
      [expires_in_days |-> 0, daily_limit |-> MinDailyLimit, user_id |-> 1],
      [expires_in_days |-> MaxExpiryDays + 1, daily_limit |-> MinDailyLimit, user_id |-> 1],
      [expires_in_days |-> 1, daily_limit |-> MinDailyLimit - 1, user_id |-> 1] }

(* auth.js generateApiKey: 32 random bytes; the secrets it has yet to draw *)
FreshSecrets == <<"k3">>

Created == Cardinality(DOMAIN keys) - Cardinality(KeyIds)

(* the id the SERIAL column gives the next row                             *)
NextKeyId == Cardinality(DOMAIN keys) + 1

(* create-key.js lines 22-33: the response to a body that is turned away   *)
CreateValidation(body) ==
    IF body.expires_in_days = 0 \/ body.daily_limit = 0 THEN 400
    ELSE IF body.expires_in_days < 1 \/ body.expires_in_days > MaxExpiryDays THEN 400
    ELSE IF body.daily_limit < MinDailyLimit \/ body.daily_limit > MaxDailyLimit THEN 400
    ELSE 0

(* create-key.js, POST: a row with a new secret is inserted and the        *)
(* secret is returned in the response                                      *)
CreateKey(sessionId, body) ==
    /\ Created < Len(FreshSecrets)
    /\ kv' = Renewed(sessionId, now)
    /\ IF ~Authorized(sessionId)
       THEN /\ adm' = Answered("create-key", sessionId, 401, 0, {})
            /\ UNCHANGED keys
       ELSE IF CreateValidation(body) # 0
       THEN /\ adm' = Answered("create-key", sessionId, CreateValidation(body), 0, {})
            /\ UNCHANGED keys
       ELSE LET apiKey == FreshSecrets[Created + 1]
                row == [api_key |-> apiKey, key_hash |-> hashApiKey(apiKey),
                        user_id |-> body.user_id,
                        expires_at |-> now + body.expires_in_days * TicksPerDay,
                        is_paused |-> FALSE, daily_limit |-> body.daily_limit,
                        daily_used |-> 0, last_reset_date |-> Day(now)]
            IN  /\ keys' = keys @@ (NextKeyId :> row)
                /\ adm' = Answered("create-key", sessionId, 201, NextKeyId, {apiKey})
    /\ UNCHANGED <<users, log, now, pc, rq, apiKeyInfo, incr, fx, resp, cleaning>>

(* keys.js (change-password.js lines 79-235), GET: every column of the     *)
(* SELECT, api_key among them, is spread into the entry of its row         *)
ListKeys(sessionId) ==
    /\ kv' = Renewed(sessionId, now)
    /\ IF ~Authorized(sessionId)
       THEN adm' = Answered("keys", sessionId, 401, 0, {})
       ELSE adm' = Answered("keys", sessionId, 200, 0,
                            {keys[k].api_key : k \in {x \in DOMAIN keys :
                                                        keys[x].user_id \in DOMAIN users}})
    /\ UNCHANGED <<keys, users, log, now, pc, rq, apiKeyInfo, incr, fx, resp, cleaning>>

(* the length of the texts request bodies carry                            *)
Length(text) ==
    CASE text = "" -> 0
      [] text = "ab" -> 2
      [] text = "ops" -> 3
      [] text = "admin" -> 5
      [] text = "12345" -> 5
      [] text = "secret1" -> 7

MinUsername == 3     \* users.js:70
MaxUsername == 50    \* users.js:70
MinPassword == 6     \* users.js:74, change-password.js:26

(* What users.js POST is sent: username and password ("" when missing)     *)
UserBodies ==
    { [username |-> "ops", password |-> "secret1"],
      [username |-> "admin", password |-> "secret1"],
      [username |-> "ab", password |-> "secret1"],
      [username |-> "ops", password |-> "12345"],
      [username |-> "", password |-> "secret1"] }

(* the id the SERIAL column gives the next user                            *)
NextUserId == Cardinality(DOMAIN users) + 1

(* users.js lines 64-95, POST: an administrator creates a user             *)
PostUser(sessionId, body) ==
    /\ kv' = Renewed(sessionId, now)
    /\ IF ~Authorized(sessionId)
       THEN /\ adm' = Answered("users", sessionId, 401, 0, {})
            /\ UNCHANGED users
       ELSE IF body.username = "" \/ body.password = ""
       THEN /\ adm' = Answered("users", sessionId, 400, 0, {})
            /\ UNCHANGED users
       ELSE IF Length(body.username) < MinUsername \/ Length(body.username) > MaxUsername
       THEN /\ adm' = Answered("users", sessionId, 400, 0, {})
            /\ UNCHANGED users
       ELSE IF Length(body.password) < MinPassword
       THEN /\ adm' = Answered("users", sessionId, 400, 0, {})
            /\ UNCHANGED users
       ELSE IF \E u \in DOMAIN users : users[u].username = body.username
       THEN /\ adm' = Answered("users", sessionId, 409, 0, {})
            /\ UNCHANGED users
       ELSE /\ users' = users @@ (NextUserId :>
                           [username |-> body.username,
                            password_hash |-> hashPassword(body.password),
                            is_active |-> TRUE])
            /\ adm' = Answered("users", sessionId, 201, 0, {})
    /\ UNCHANGED <<keys, log, now, pc, rq, apiKeyInfo, incr, fx, resp, cleaning>>

(* What change-password is sent: user_id (0 when missing) and new_password *)
(* ("" when missing)                                                       *)
PasswordBodies ==
    { [user_id |-> user_id, new_password |-> new_password] :
         user_id \in {0, 1, 2, 9}, new_password \in {"", "12345", "secret1"} }

(* change-password.js lines 6-77, POST.  comparePassword is not imported   *)
(* there: for the session's own user line 45 throws a ReferenceError,      *)
(* which the catch block answers with 500.                                 *)
ChangePassword(sessionId, body) ==
    /\ kv' = Renewed(sessionId, now)
    /\ IF ~Authorized(sessionId)
       THEN /\ adm' = Answered("change-password", sessionId, 401, 0, {})
            /\ UNCHANGED users
       ELSE IF body.user_id = 0 \/ body.new_password = ""
       THEN /\ adm' = Answered("change-password", sessionId, 400, 0, {})
            /\ UNCHANGED users
       ELSE IF Length(body.new_password) < MinPassword
       THEN /\ adm' = Answered("change-password", sessionId, 400, 0, {})
            /\ UNCHANGED users
       ELSE IF body.user_id \notin DOMAIN users
       THEN /\ adm' = Answered("change-password", sessionId, 404, 0, {})
            /\ UNCHANGED users
       ELSE IF body.user_id = validateSession(sessionId, now).userId
       THEN /\ adm' = Answered("change-password", sessionId, 500, 0, {})
            /\ UNCHANGED users
       ELSE /\ users' = [users EXCEPT ![body.user_id].password_hash =
                                         hashPassword(body.new_password)]
            /\ adm' = Answered("change-password", sessionId, 200, 0, {})
    /\ UNCHANGED <<keys, log, now, pc, rq, apiKeyInfo, incr, fx, resp, cleaning>>

(* the five mutating admin endpoints, called with the session's cookie,    *)
(* with one never issued and with none, while the session runs out         *)
NextGuard ==
    \/ \E sessionId \in Cookies, user_id \in {1, 2}, is_active \in BOOLEAN :
          PutUser(sessionId, user_id, is_active)
    \/ \E sessionId \in Cookies, body \in UserBodies : PostUser(sessionId, body)
    \/ \E sessionId \in Cookies, body \in PasswordBodies : ChangePassword(sessionId, body)
    \/ \E sessionId \in Cookies, key_id \in {1, 9} : RevokeKey(sessionId, key_id)
    \/ \E sessionId \in Cookies, body \in CreateBodies : CreateKey(sessionId, body)
    \/ Tick

(* lookups from the first address with the secret of key 1                 *)
StartAdmin(r) ==
    Arrive(r, {Request("GET", "k1", Mobile, "ip1")})

(* an administrator has logged in at T0; both keys are live with their     *)
(* whole budget left                                                       *)
InitAdmin ==
    /\ keys = [k \in KeyIds |->
                 IF k = 1 THEN KeyRow("k1", FALSE, NoExpiry, MaxLimit, 0, Day(T0))
                 ELSE KeyRow("k2", FALSE, NoExpiry, MaxLimit, 0, Day(T0))]
    /\ users = [u \in UserIds |-> UserRow(TRUE)]
    /\ kv = (1 :> [token |-> generateToken(1, T0), userId |-> 1,
                   expires |-> T0 + SessionTtl, present |-> TRUE])
    /\ adm = NoCall
    /\ cleaning = NoCleaning
    /\ now = T0
    /\ log = (UsageRecord(2, "error", "ip1") :> InitialRecords)
    /\ pc = [r \in Req |-> "idle"]
    /\ rq = [r \in Req |-> NoRequest]
    /\ apiKeyInfo = [r \in Req |-> NoRow]
    /\ incr = [r \in Req |-> NoIncr]
    /\ fx = [r \in Req |-> NoFx]
    /\ resp = [r \in Req |-> NoResp]

(* the cookies the admin endpoints are called with: the session's, none    *)
AdminCookies == DOMAIN kv \cup {NoSession}

(* one lookup at a time, beside the calls of the admin endpoints, on the   *)
(* first day                                                               *)
NextAdmin ==
    \/ StartAdmin(1)
    \/ Pipeline(1)
    \/ \E sessionId \in AdminCookies, user_id \in UserIds, is_active \in BOOLEAN :
          PutUser(sessionId, user_id, is_active)
    \/ \E sessionId \in AdminCookies, key_id \in {0, 1, 9} : RevokeKey(sessionId, key_id)
    \/ \E sessionId \in AdminCookies, body \in CreateBodies : CreateKey(sessionId, body)
    \/ \E sessionId \in AdminCookies : ListKeys(sessionId)
    \/ Tick

SpecAdmin == InitAdmin /\ [][NextAdmin]_vars

SpecGuard == InitAdmin /\ [][NextGuard]_vars

(* ------------------------- using a created key ------------------------ *)
(* lookups from the first address with the secret create-key returns       *)
StartCreate(r) ==
    Arrive(r, {Request("GET", FreshSecrets[i], Mobile, "ip1") : i \in 1..Len(FreshSecrets)})

(* an administrator creates a key, for a user or for none, and lookups     *)
(* present its secret, before and after                                    *)
NextCreate ==
    \/ StartCreate(1)
    \/ Pipeline(1)
    \/ \E sessionId \in AdminCookies, body \in CreateBodies : CreateKey(sessionId, body)
    \/ Tick

SpecCreate == InitAdmin /\ [][NextCreate]_vars

(* ------------------------- cleaning the reply -------------------------- *)
(* part_002 lines 139-148: the map over baseResponse.data.  A JSON value   *)
(* is written as its text; Undefined is what reading a field an entry does *)
(* not have gives.                                                         *)
MaxEntries == 2

Fields == {"name", "fname", "mobile", "alt", "address", "circle", "id"}
Undefined == "undefined"
Falsy == {Undefined, "null", "''", "0", "false"}
QueriedNumber == "'9876543210'"

(* an entry of the upstream list: an object with the fields it has, or     *)
(* null                                                                    *)
ObjectEntry(at) == [type |-> "object", at |-> at]
NullEntry == [type |-> "null", at |-> [f \in Fields |-> Undefined]]

(* The entries tried: every field set to the same text; one field          *)
(* missing, null, empty or zero among them; no field at all; null.         *)
Entries ==
    {ObjectEntry([f \in Fields |-> v]) : v \in {"'a'", "'b'"}}
        \cup {ObjectEntry([f \in Fields |-> IF f = g THEN odd ELSE v]) :
                 v \in {"'a'", "'b'"}, g \in Fields, odd \in Falsy \ {"false"}}
        \cup {ObjectEntry([f \in Fields |-> Undefined]), NullEntry}

RECURSIVE ListsOf(_, _)
ListsOf(S, n) ==
    IF n = 0 THEN {<<>>}
    ELSE ListsOf(S, n - 1) \cup {Append(l, x) : l \in {m \in ListsOf(S, n - 1) : Len(m) = n - 1}, x \in S}

(* JavaScript's value || fallback                                          *)
Or(value, fallback) == IF value \in Falsy THEN fallback ELSE value

(* lines 140-148: the object built for one entry                           *)
CleanItem(item, number) ==
    [f \in Fields |-> Or(item.at[f], IF f = "mobile" THEN number ELSE "'N/A'")]

(* lines 140-148 and 162-170: the map throws a TypeError at a null entry   *)
(* (item.name of null); otherwise the response carries the mapped list and *)
(* its length                                                              *)
CleanData ==
    /\ ~cleaning.done
    /\ IF \E i \in 1..Len(cleaning.data) : cleaning.data[i].type = "null"
       THEN cleaning' = [cleaning EXCEPT !.done = TRUE, !.thrown = TRUE]
       ELSE LET cleanedData == [i \in 1..Len(cleaning.data) |->
                                   CleanItem(cleaning.data[i], cleaning.number)]
            IN  cleaning' = [cleaning EXCEPT !.done = TRUE,
                                             !.cleanedData = cleanedData,
                                             !.results = Len(cleanedData)]
    /\ UNCHANGED <<keys, users, kv, adm, log, now, pc, rq, apiKeyInfo, incr, fx, resp>>

(* an upstream list of up to MaxEntries entries has arrived for a lookup   *)
(* of QueriedNumber; the stores play no part                               *)
InitClean ==
    /\ \E data \in ListsOf(Entries, MaxEntries) :
          cleaning = [NoCleaning EXCEPT !.data = data, !.number = QueriedNumber]
    /\ keys = [k \in KeyIds |->
                 KeyRow(IF k = 1 THEN "k1" ELSE "k2", FALSE, NoExpiry, MaxLimit, 0, Day(T0))]
    /\ users = [u \in UserIds |-> UserRow(TRUE)]
    /\ kv = NoSessions
    /\ adm = NoCall
    /\ now = T0
    /\ log = (UsageRecord(2, "error", "ip1") :> InitialRecords)
    /\ pc = [r \in Req |-> "idle"]
    /\ rq = [r \in Req |-> NoRequest]
    /\ apiKeyInfo = [r \in Req |-> NoRow]
    /\ incr = [r \in Req |-> NoIncr]
    /\ fx = [r \in Req |-> NoFx]
    /\ resp = [r \in Req |-> NoResp]

NextClean == CleanData

SpecClean == InitClean /\ [][NextClean]_vars

(* ------------------------------- claims -------------------------------- *)
Resolved(r) == apiKeyInfo[r].id # 0
Row(r) == keys[apiKeyInfo[r].id]

(* C1: a lookup whose key resolves to a paused row is answered 403 and     *)
(* goes no further, whatever the row's expiry and whatever its             *)
(* daily_used and daily_limit.                                             *)
C1_PausedIs403 ==
    \A r \in Req :
        (Resolved(r) /\ apiKeyInfo[r].is_paused)
            => (pc[r] = "done" /\ resp[r].status = 403 /\ ~resp[r].thrown)

(* a paused key that is also expired and out of budget got its 403         *)
C1_Witness ==
    \E r \in Req :
        /\ pc[r] = "done" /\ Resolved(r) /\ apiKeyInfo[r].is_paused
        /\ fx[r].expired
        /\ Row(r).daily_used >= Row(r).daily_limit
        /\ resp[r].status = 403

(* C2: a lookup whose key is not paused and whose expiry lay in the past   *)
(* when it was checked is answered 401, never 429, with budget left or     *)
(* without.                                                                *)
C2_ExpiredIs401 ==
    \A r \in Req :
        (Resolved(r) /\ ~apiKeyInfo[r].is_paused /\ fx[r].expired)
            => (pc[r] = "done" /\ resp[r].status = 401 /\ ~resp[r].thrown)

(* an expired key with its budget used up got 401                          *)
C2_Witness ==
    \E r \in Req :
        /\ pc[r] = "done" /\ Resolved(r) /\ ~apiKeyInfo[r].is_paused
        /\ fx[r].expired
        /\ Row(r).daily_used >= Row(r).daily_limit
        /\ Row(r).last_reset_date = Day(now)
        /\ resp[r].status = 401

(* C3: a request whose key was paused or expired when checked makes no     *)
(* upstream call and no change to the key's daily_used or last_reset_date.  *)
C3_NoTrafficWhenPausedOrExpired ==
    \A r \in Req :
        (Resolved(r) /\ (apiKeyInfo[r].is_paused \/ fx[r].expired))
            => (fx[r].calls = 0 /\ fx[r].consumed = 0 /\ fx[r].upstream = "none")

(* a paused, unexpired key with budget left was turned away                *)
C3_Witness ==
    \E r \in Req :
        /\ pc[r] = "done" /\ Resolved(r) /\ apiKeyInfo[r].is_paused
        /\ ~fx[r].expired
        /\ Row(r).daily_used < Row(r).daily_limit
        /\ fx[r].calls = 0 /\ fx[r].consumed = 0

(* C4: under sequential execution a lookup rejected because its key's      *)
(* budget is used up (the lookup after the B-th success of the day) is     *)
(* answered 429, and the stored daily_used is at most daily_limit + 1.     *)
C4_QuotaRejectionIs429 ==
    \A r \in Req :
        (pc[r] = "done" /\ fx[r].caught = ErrQuota /\ Row(r).last_reset_date = fx[r].arrived)
            => /\ resp[r].status = 429
               /\ Row(r).daily_used <= Row(r).daily_limit + 1

(* C5: the quota check applies the day rollover: a lookup that arrives     *)
(* after its key used up its budget on an earlier day passes the quota     *)
(* check.                                                                  *)
C5_RolloverAdmits ==
    [][\A r \in Req :
          ( /\ pc[r] = "keyInfo" /\ pc'[r] # "keyInfo"
            /\ fx[r].arrived = Day(now)
            /\ Row(r).daily_used >= Row(r).daily_limit
            /\ Row(r).last_reset_date < Day(now) )
              => pc'[r] = "axios"]_vars

(* C6: incrementApiUsage run alone: when the row's last_reset_date differs *)
(* from the function's today it leaves daily_used = 1 and last_reset_date  *)
(* = today whatever daily_used was; otherwise it leaves daily_used one     *)
(* higher and last_reset_date as it was.                                   *)
C6_IncrementPostcondition ==
    [][\A r \in Req :
          (pc[r] = "incrWrite" /\ pc'[r] = "logSuccess")
              => LET k == apiKeyInfo[r].id
                     today == incr[r].today
                 IN  IF keys[k].last_reset_date # today
                     THEN /\ keys'[k].daily_used = 1
                          /\ keys'[k].last_reset_date = today
                     ELSE /\ keys'[k].daily_used = keys[k].daily_used + 1
                          /\ keys'[k].last_reset_date = keys[k].last_reset_date]_vars

(* the first consume of the second day has reset the counter               *)
C6_Witness ==
    \E r \in Req :
        /\ pc[r] = "logSuccess"
        /\ fx[r].day > Day(T0)
        /\ Row(r).last_reset_date = fx[r].day
        /\ Row(r).daily_used = 1

(* C7: two lookups on one key never both reset its counter for the same    *)
(* day: once both have consumed, the counter stands at 2 or more.          *)
C7_NoDoubleReset ==
    \A r1, r2 \in Req :
        ( /\ r1 # r2
          /\ fx[r1].consumed = 1 /\ fx[r2].consumed = 1
          /\ apiKeyInfo[r1].id = apiKeyInfo[r2].id
          /\ fx[r1].day = fx[r2].day
          /\ Row(r1).last_reset_date = fx[r1].day )
            => Row(r1).daily_used >= 2

(* C8: no late reset or lost increment within a day: a consume that lands  *)
(* on a row already reset today adds one to its counter.                   *)
C8_NoLateReset ==
    [][\A r \in Req :
          ( /\ pc[r] = "incrWrite" /\ pc'[r] = "logSuccess"
            /\ incr[r].today = Day(now)
            /\ Row(r).last_reset_date = Day(now) )
              => keys'[apiKeyInfo[r].id].daily_used = Row(r).daily_used + 1]_vars

(* the ways the upstream call fails                                        *)
UpstreamFailures == {"timeout", "non2xx", "null", "string", "noData", "dataNotList"}

(* C9: an admitted request whose upstream call fails is answered 503 with  *)
(* a retryAfter hint, has written exactly one usage record, with status    *)
(* 'error', and has not incremented daily_used.                            *)
C9_UpstreamFailureIs503 ==
    \A r \in Req :
        fx[r].upstream \in UpstreamFailures
            => /\ pc[r] \in {"logError", "done"}
               /\ fx[r].consumed = 0
               /\ pc[r] = "done"
                    => /\ resp[r].status = 503 /\ resp[r].retryAfter > 0
                       /\ ~resp[r].thrown
                       /\ fx[r].logged = 1 /\ fx[r].outcome = "error"
                       /\ \E u \in DOMAIN log :
                             /\ u.api_key_id = apiKeyInfo[r].id
                             /\ u.ip_address = rq[r].ip
                             /\ u.status = "error"

(* a request whose upstream call timed out got its 503                     *)
C9_Witness ==
    \E r \in Req :
        /\ pc[r] = "done" /\ fx[r].upstream = "timeout"
        /\ resp[r].status = 503 /\ fx[r].logged = 1

(* C10: the request after IpLimit requests from one address within the     *)
(* hour is answered 429: a lookup that reaches the per-IP check when its   *)
(* address has IpLimit usage records in the window gets status 429.        *)
C10_RateRejectionIs429 ==
    [][\A r \in Req :
          ( /\ pc[r] = "ipUsage" /\ pc'[r] # "ipUsage"
            /\ IpUsage(rq[r].ip) >= IpLimit )
              => resp'[r].status = 429]_vars

(* the calendar hour a moment lies in                                      *)
Hour(t) == t \div TicksPerHour

(* the usage records of an address created within calendar hour h         *)
BucketUsage(ip, h) ==
    Copies(log, {u \in DOMAIN log : u.ip_address = ip /\ Hour(u.created_at) = h})

(* C11: the per-IP count is a calendar-hour bucket: after IpLimit recorded *)
(* requests from an address during hour H, the first request from that     *)
(* address in hour H+1 passes the per-IP check, however little time has    *)
(* passed since those requests.                                            *)
C11_HourBucketResets ==
    [][\A r \in Req :
          ( /\ pc[r] = "ipUsage" /\ pc'[r] # "ipUsage"
            /\ BucketUsage(rq[r].ip, Hour(now) - 1) >= IpLimit
            /\ BucketUsage(rq[r].ip, Hour(now)) = 0 )
              => pc'[r] = "keyInfo"]_vars

(* a number of exactly ten digits whose first digit is 6, 7, 8 or 9        *)
TenDigitMobile(number) ==
    /\ Len(number) = 10
    /\ \A i \in 1..Len(number) : number[i] \in 0..9
    /\ number[1] \in {6, 7, 8, 9}

(* a GET lookup that supplies both parameters                              *)
Supplied(request) ==
    request.method = "GET" /\ request.key # "" /\ request.number # <<>>

(* C12: every GET lookup that supplies key and number, the number not ten  *)
(* digits starting with 6 to 9, is answered with status 400.              *)
C12_MalformedNumberIs400 ==
    \A r \in Req :
        (pc[r] = "done" /\ Supplied(rq[r]) /\ ~TenDigitMobile(rq[r].number))
            => resp[r].status = 400

(* a request the handler turns away before the key lookup: a parameter     *)
(* missing, or the number not a ten-digit mobile number                    *)
TurnedAwayEarly(request) ==
    /\ request.method = "GET"
    /\ \/ request.key = ""
       \/ request.number = <<>>
       \/ ~TenDigitMobile(request.number)

(* slot r takes a step                                                     *)
Acts(r) == <<pc[r], rq[r], fx[r], resp[r]>>' # <<pc[r], rq[r], fx[r], resp[r]>>

(* C13: a request with a missing key, a missing number or a malformed      *)
(* number is finished in the step it arrives in: no key lookup, no rate    *)
(* or quota read and no upstream call follow, no usage record is written   *)
(* and every key row is left as it was.                                    *)
C13_EarlyRejectionFrame ==
    [][\A r \in Req :
          ( /\ pc[r] \in {"idle", "done"} /\ Acts(r)
            /\ TurnedAwayEarly(rq'[r]) )
              => /\ pc'[r] \in {"idle", "done"}
                 /\ apiKeyInfo'[r] = NoRow
                 /\ fx'[r].calls = 0 /\ fx'[r].upstream = "none"
                 /\ fx'[r].logged = 0 /\ fx'[r].consumed = 0
                 /\ log' = log
                 /\ keys' = keys]_vars

(* a lookup with a five-digit number has been turned away                  *)
C13_Witness ==
    \E r \in Req :
        /\ pc[r] = "done"
        /\ rq[r].key # "" /\ Len(rq[r].number) = 5
        /\ apiKeyInfo[r] = NoRow /\ fx[r].calls = 0 /\ fx[r].logged = 0

(* C14: usage recording on every exit path after key resolution: a         *)
(* finished request whose key resolved to a row has written exactly one    *)
(* usage record, with status 'success' if it was answered 200 and with     *)
(* status 'error' if it was rejected (paused, expired, rate limit, quota,  *)
(* upstream failure).                                                      *)
C14_OneRecordPerResolvedRequest ==
    \A r \in Req :
        (pc[r] = "done" /\ Resolved(r))
            => /\ fx[r].logged = 1
               /\ fx[r].outcome = IF resp[r].status = 200 THEN "success" ELSE "error"

(* C15: a request with a valid, unpaused, unexpired key that is rejected   *)
(* because its address is over the per-IP ceiling or because the key's     *)
(* daily quota is used up is answered by the handler with status 429 and   *)
(* a body that holds a short error message and nothing else.               *)
C15_CeilingAndQuotaAre429 ==
    \A r \in Req :
        ( /\ pc[r] = "done" /\ Resolved(r)
          /\ ~apiKeyInfo[r].is_paused /\ ~fx[r].expired
          /\ fx[r].caught \in {ErrRateLimit, ErrQuota} )
            => /\ resp[r].status = 429 /\ ~resp[r].thrown
               /\ resp[r].error = (IF fx[r].caught = ErrRateLimit
                                   THEN "Rate limit exceeded"
                                   ELSE "Daily quota exceeded")
               /\ resp[r].retryAfter = 0

C17_ExpiredLooksUnknown ==
    \A r \in Req :
        ( /\ pc[r] = "done" /\ Resolved(r)
          /\ ~apiKeyInfo[r].is_paused /\ fx[r].expired )
            => resp[r] = KeyChecks(NoRow, now)

(* the user that owns the key row a lookup's secret belongs to has been    *)
(* deactivated                                                             *)
OwnerDisabled(r) ==
    \E k \in DOMAIN keys :
        /\ keys[k].key_hash = hashApiKey(rq[r].key)
        /\ keys[k].user_id \in DOMAIN users
        /\ ~users[keys[k].user_id].is_active

(* C18: key resolution fails closed for disabled owners: a lookup whose    *)
(* key belongs to a deactivated user is finished at the key lookup with    *)
(* the response a lookup with a key no row has gets, and makes no          *)
(* upstream call.                                                          *)
C18_DisabledOwnerLooksUnknown ==
    [][\A r \in Req :
          (pc[r] = "getApiKey" /\ pc'[r] # "getApiKey" /\ OwnerDisabled(r))
              => /\ pc'[r] = "done"
                 /\ resp'[r] = KeyChecks(NoRow, now)
                 /\ fx'[r].calls = 0]_vars

(* the statuses of the handler's error mapping                             *)
MappedStatuses == {400, 401, 403, 429, 500, 503}

(* C19: every failure is caught at the handler boundary: a request in      *)
(* which a failure was raised inside the pipeline (format, rate, quota,    *)
(* store error) ends with the handler itself sending a response whose      *)
(* status is one of the mapping; no fault raised while handling the error  *)
(* leaves the handler.                                                     *)
C19_NothingEscapesTheHandler ==
    \A r \in Req :
        (pc[r] = "done" /\ fx[r].caught # "")
            => (~resp[r].thrown /\ resp[r].status \in MappedStatuses)

(* C20: a failure to write the usage record does not change the response:  *)
(* a request waiting for its usage record to be written gets, when it      *)
(* finishes without the record, the 200 of a successful upstream call or   *)
(* the 503 with retryAfter of a failed one all the same.                   *)
C20_UsageWriteFailureIsSilent ==
    [][\A r \in Req :
          ( /\ pc[r] \in {"logSuccess", "logError"} /\ pc'[r] = "done"
            /\ fx'[r].logged = fx[r].logged )
              => /\ ~resp'[r].thrown
                 /\ IF pc[r] = "logSuccess"
                    THEN resp'[r].status = 200
                    ELSE resp'[r].status = 503 /\ resp'[r].retryAfter > 0]_vars

(* what the session store holds at t: the records that are there and       *)
(* whose time to live has not run out                                      *)
Stored(store, t) ==
    [sessionId \in {x \in DOMAIN store : kvHas(store, x, t)} |-> store[sessionId]]

(* C24: session revocation is effective and idempotent: a validateSession  *)
(* of a session id that destroySession was called with before returns      *)
(* invalid, whatever the expiry of the token inside; and destroySession    *)
(* called again, or with an unknown or empty session id, returns and       *)
(* leaves the session store as it was.                                     *)
C24_DestroyedStaysInvalid ==
    [][ /\ ( /\ adm'.op = "validateSession" /\ now' = now
             /\ adm'.sid \in adm.destroyed )
            => ~adm'.valid
        /\ ( /\ adm'.op = "destroySession" /\ now' = now
             /\ ~kvHas(kv, adm'.sid, now) )
            => Stored(kv', now) = Stored(kv, now) ]_vars

(* a session destroyed before its token and its stored record ran out has  *)
(* been found invalid                                                      *)
C24_Witness ==
    /\ adm.op = "validateSession" /\ ~adm.valid
    /\ adm.sid \in adm.destroyed
    /\ adm.sid \in DOMAIN kv
    /\ now < kv[adm.sid].token.exp /\ now < kv[adm.sid].expires

(* C25: a successful validateSession slides the store's time to live       *)
(* forward: the instant at which the stored session record runs out is,    *)
(* after a successful validation, never earlier than it was before.        *)
C25_RenewalNeverShortens ==
    [][ ( /\ adm'.op = "validateSession" /\ now' = now
          /\ adm'.valid )
            => kv'[adm'.sid].expires >= kv[adm'.sid].expires ]_vars

(* the validity of a token is capped at the instant it was issued at plus  *)
(* 24 hours                                                                *)
IssuedAt(sessionId) == kv[sessionId].token.iat

(* C26: renewal extends only the store side: no validateSession succeeds   *)
(* 24 hours or more after the session was issued, however many             *)
(* validations renewed the stored record in between.                      *)
C26_TokenCapsTheSession ==
    [][ ( /\ adm'.op = "validateSession" /\ now' = now
          /\ adm'.valid )
            => now < IssuedAt(adm'.sid) + Seconds(24 * 60 * 60) ]_vars

(* a session whose stored record validations have kept alive was found     *)
(* invalid 24 hours after it was issued                                    *)
C26_Witness ==
    /\ adm.op = "validateSession" /\ ~adm.valid
    /\ adm.sid \in DOMAIN kv
    /\ kvHas(kv, adm.sid, now)
    /\ now >= IssuedAt(adm.sid) + Seconds(24 * 60 * 60)

(* ---- C21 ---- *)
(* the state revoke-key leaves a row in                                    *)
Revoked(k) ==
    k \in DOMAIN keys /\ keys[k].is_paused /\ InThePast(keys[k].expires_at, now)

(* request r is for the key of row k                                       *)
Presents(r, k) == rq[r] # NoRequest /\ hashApiKey(rq[r].key) = keys[k].key_hash

(* C21: revocation is irreversible.  Once revoke-key has succeeded for a   *)
(* key, every later step of lookups and admin endpoints leaves its row     *)
(* paused with the expiry in the past, and every lookup whose key check    *)
(* comes after the revocation is answered there and then with 401 or 403:  *)
(* it makes no upstream call and no quota increment.                       *)
C21_RevocationIsFinal ==
    [][ \A k \in DOMAIN keys : Revoked(k) =>
          /\ k \in DOMAIN keys'
          /\ keys'[k].is_paused
          /\ InThePast(keys'[k].expires_at, now')
          /\ \A r \in Req :
               (Presents(r, k) /\ pc[r] = "getApiKey" /\ pc'[r] # "getApiKey") =>
                  /\ pc'[r] = "done"
                  /\ resp'[r].status \in {401, 403}
                  /\ fx'[r].calls = 0
                  /\ fx'[r].consumed = 0 ]_vars

(* a lookup with the secret of a key revoked before it has been answered   *)
(* 403 with nothing called or counted                                      *)
C21_Witness ==
    /\ adm.op # "none"
    /\ \E k \in DOMAIN keys, r \in Req :
          /\ Revoked(k)
          /\ Presents(r, k)
          /\ pc[r] = "done"
          /\ resp[r].status = 403
          /\ fx[r].calls = 0
          /\ fx[r].consumed = 0

(* ---- C22 ---- *)
(* the step is a call of revoke-key for row k, answered 200                *)
RevokeAnswered(k) ==
    /\ adm'.op = "revoke-key"
    /\ adm'.key_id = k
    /\ adm'.status = 200
    /\ pc' = pc
    /\ now' = now

(* C22: revoke-key is idempotent.  Revoking a key that is revoked already  *)
(* succeeds again, leaves it paused with the expiry in the past, and       *)
(* leaves daily_limit, daily_used and last_reset_date as they were; a      *)
(* revoke-key call with a valid session for such a key is never turned     *)
(* away.                                                                   *)
C22_RevokeIsIdempotent ==
    [][ \A k \in DOMAIN keys :
          /\ (Revoked(k) /\ RevokeAnswered(k)) =>
                /\ keys'[k].is_paused
                /\ InThePast(keys'[k].expires_at, now')
                /\ keys'[k].daily_limit = keys[k].daily_limit
                /\ keys'[k].daily_used = keys[k].daily_used
                /\ keys'[k].last_reset_date = keys[k].last_reset_date
          /\ (Revoked(k) /\ adm'.op = "revoke-key" /\ adm'.key_id = k
                /\ adm'.valid /\ pc' = pc /\ now' = now) => adm'.status = 200 ]_vars

(* the last call revoked, with 200, a key that had been revoked before     *)
C22_Witness ==
    /\ adm.op = "revoke-key"
    /\ adm.status = 200
    /\ adm.again
    /\ Revoked(adm.key_id)

(* ---- C23 ---- *)
(* C23: key rows and usage records are never removed.  In every step of    *)
(* lookups, create-key and revoke-key each key id that exists stays, and   *)
(* each usage record written stays in the log with its fields and in as    *)
(* many copies at least.                                                   *)
C23_RowsAndRecordsStay ==
    [][ /\ DOMAIN keys \subseteq DOMAIN keys'
        /\ \A u \in DOMAIN log : u \in DOMAIN log' /\ log'[u] >= log[u] ]_vars

(* a key has been created, another revoked, and a lookup has added a       *)
(* record to the log                                                       *)
C23_Witness ==
    /\ Created > 0
    /\ \E k \in KeyIds : Revoked(k)
    /\ LogSize > InitialRecords
    /\ \A k \in KeyIds : k \in DOMAIN keys

(* ---- C27 ---- *)
(* C27: a key's secret is shown once, at creation.  The response of        *)
(* create-key carries at most the secret of the key it has created, and    *)
(* the response of no other admin endpoint carries the secret of any key   *)
(* (the bodies of the lookup endpoint carry no field of a key row).        *)
C27_SecretShownOnce ==
    /\ adm.op = "create-key" =>
          \A secret \in adm.shown :
              adm.key_id \in DOMAIN keys /\ secret = keys[adm.key_id].api_key
    /\ adm.op # "create-key" => adm.shown = {}

(* ---- C28 ---- *)
(* the error texts of the lookup endpoint's responses: those of the        *)
(* handler's own res.json calls and the framework's for a handler that     *)
(* threw                                                                   *)
ErrorBodies ==
    { "Method not allowed", "Missing required parameters",
      "Invalid or expired API key", "API key is currently paused", "API key has expired",
      "Service temporarily unavailable. Please try again later.",
      "Invalid mobile number format", "Rate limit exceeded", "Daily quota exceeded",
      "Service temporarily suspended", "Authentication failed", "Bad request",
      "Internal Server Error" }

(* the texts of the errors raised inside the handler                       *)
RaisedTexts ==
    {BaseApiErrorMessage(reply) : reply \in UpstreamReplies}
        \cup {ErrStore, ErrInvalidNumber, ErrRateLimit, ErrQuota}

(* C28: no upstream detail reaches the caller.  Every error response of    *)
(* the lookup endpoint carries one of a fixed set of constant texts, never *)
(* the text of the error the upstream call or the store raised, and its    *)
(* retryAfter is 60 after an upstream failure and absent otherwise.        *)
C28_ErrorBodiesAreConstant ==
    \A r \in Req :
        (pc[r] = "done" /\ resp[r].status >= 400) =>
            /\ resp[r].error \in ErrorBodies
            /\ resp[r].error \notin RaisedTexts
            /\ resp[r].retryAfter = (IF resp[r].status = 503 THEN RetryAfter ELSE 0)

(* a lookup whose upstream call timed out has been answered 503            *)
C28_Witness ==
    \E r \in Req :
        /\ pc[r] = "done"
        /\ fx[r].upstream = "timeout"
        /\ resp[r].status = 503
        /\ resp[r].retryAfter = RetryAfter

(* ---- C29 ---- *)
(* C29: on success every upstream entry is projected onto the fields name, *)
(* fname, mobile, alt, address, circle and id.  The cleaned list has the   *)
(* length of the upstream list and meta.results is that length; entry i of *)
(* it has exactly these fields; a field entry i of the upstream list has   *)
(* is passed on, and one it does not have is "N/A", or the queried number  *)
(* for mobile.                                                             *)
C29_EntriesAreProjected ==
    (cleaning.done /\ ~cleaning.thrown) =>
        /\ Len(cleaning.cleanedData) = Len(cleaning.data)
        /\ cleaning.results = Len(cleaning.data)
        /\ \A i \in 1..Len(cleaning.data) :
              /\ DOMAIN cleaning.cleanedData[i] = Fields
              /\ \A f \in Fields :
                    cleaning.cleanedData[i][f] =
                        IF cleaning.data[i].at[f] # Undefined THEN cleaning.data[i].at[f]
                        ELSE IF f = "mobile" THEN cleaning.number
                        ELSE "'N/A'"

(* ---- C30 ---- *)
(* C30: the lookup endpoint accepts only GET and OPTIONS.  A request with  *)
(* another method is finished in the step it arrives in, OPTIONS with 200  *)
(* and no body and any other with 405; no key lookup, no rate or quota     *)
(* read and no upstream call follow, no usage record is written and every  *)
(* key row is left as it was.                                              *)
C30_OnlyGetAndOptions ==
    [][\A r \in Req :
          ( /\ pc[r] \in {"idle", "done"} /\ Acts(r)
            /\ rq'[r].method # "GET" )
              => /\ pc'[r] = "done"
                 /\ resp'[r].status = (IF rq'[r].method = "OPTIONS" THEN 200 ELSE 405)
                 /\ rq'[r].method = "OPTIONS" => (~resp'[r].json /\ resp'[r].error = "")
                 /\ ~resp'[r].thrown
                 /\ apiKeyInfo'[r] = NoRow
                 /\ fx'[r].calls = 0 /\ fx'[r].upstream = "none"
                 /\ fx'[r].logged = 0 /\ fx'[r].consumed = 0
                 /\ log' = log
                 /\ keys' = keys]_vars

(* a POST with a valid key and number has been answered 405                *)
C30_Witness ==
    \E r \in Req :
        /\ pc[r] = "done"
        /\ rq[r].method = "POST" /\ rq[r].key = "k1" /\ rq[r].number = Mobile
        /\ resp[r].status = 405
        /\ apiKeyInfo[r] = NoRow /\ fx[r].calls = 0 /\ fx[r].logged = 0

(* ---- C31 ---- *)
(* C31: the upstream call is made on the success path only and at most     *)
(* once per request.  A request's count of upstream calls goes up only     *)
(* from 0 to 1 and only at the await of axios.get, which it leaves with    *)
(* that step; it comes to that await only from a quota check that found    *)
(* daily_used below daily_limit, to the quota check only from a per-IP     *)
(* check that found the count below the ceiling, to the per-IP check only  *)
(* from a key lookup that found a row neither paused nor expired, and to   *)
(* the key lookup only as a GET with a key and a ten-digit mobile number.  *)
C31_UpstreamOnlyWhenAdmitted ==
    [][\A r \in Req :
          /\ fx'[r].calls > fx[r].calls =>
                /\ pc[r] = "axios" /\ pc'[r] # "axios"
                /\ fx[r].calls = 0 /\ fx'[r].calls = 1
          /\ (pc'[r] = "axios" /\ pc[r] # "axios") =>
                /\ pc[r] = "keyInfo"
                /\ keys[apiKeyInfo[r].id].daily_used < keys[apiKeyInfo[r].id].daily_limit
          /\ (pc'[r] = "keyInfo" /\ pc[r] # "keyInfo") =>
                /\ pc[r] = "ipUsage"
                /\ IpUsage(rq[r].ip) < IpLimit
          /\ (pc'[r] = "ipUsage" /\ pc[r] # "ipUsage") =>
                /\ pc[r] = "getApiKey"
                /\ apiKeyInfo'[r].id \in DOMAIN keys
                /\ keys[apiKeyInfo'[r].id].key_hash = hashApiKey(rq[r].key)
                /\ ~keys[apiKeyInfo'[r].id].is_paused
                /\ ~InThePast(keys[apiKeyInfo'[r].id].expires_at, now)
          /\ (pc'[r] = "getApiKey" /\ pc[r] # "getApiKey") =>
                /\ pc[r] \in {"idle", "done"}
                /\ rq'[r].method = "GET" /\ rq'[r].key # ""
                /\ TenDigitMobile(rq'[r].number)
                /\ fx'[r].calls = 0 ]_vars

(* a lookup has been answered 200 after its one upstream call              *)
C31_Witness ==
    \E r \in Req :
        /\ pc[r] = "done" /\ resp[r].status = 200 /\ rq[r].method = "GET"
        /\ fx[r].calls = 1 /\ fx[r].upstream = "dataList"

(* ---- C32 ---- *)
(* the columns of a key row a lookup may write                             *)
Counters(row) == <<row.daily_used, row.last_reset_date>>

(* C32: the gateway mutates a key only to advance daily_used and           *)
(* last_reset_date, and only on success, also when lookups with the same   *)
(* key are in flight together.  No step of a lookup changes the            *)
(* paused flag, the expiry or daily_limit of any key or adds or removes a  *)
(* row; a step that changes a row's counters is the one increment of a     *)
(* request that presented that row's key, and changes no other row; an     *)
(* increment changes the counters; and a request is finished with one      *)
(* increment made if it is answered 200 and with none otherwise.           *)
C32_KeysChangeOnlyByTheIncrement ==
    [][ /\ DOMAIN keys' = DOMAIN keys
        /\ \A k \in DOMAIN keys :
              /\ keys'[k].is_paused = keys[k].is_paused
              /\ keys'[k].expires_at = keys[k].expires_at
              /\ keys'[k].daily_limit = keys[k].daily_limit
              /\ keys'[k].key_hash = keys[k].key_hash
              /\ Counters(keys'[k]) # Counters(keys[k]) =>
                    /\ \E r \in Req :
                          /\ Presents(r, k)
                          /\ fx[r].consumed = 0 /\ fx'[r].consumed = 1
                    /\ \A j \in DOMAIN keys \ {k} : keys'[j] = keys[j]
        /\ \A r \in Req :
              /\ fx'[r].consumed > fx[r].consumed =>
                    Counters(keys'[apiKeyInfo[r].id]) # Counters(keys[apiKeyInfo[r].id])
              /\ (pc'[r] = "done" /\ pc[r] \notin {"idle", "done"}) =>
                    fx'[r].consumed = (IF resp'[r].status = 200 THEN 1 ELSE 0) ]_vars

(* ---- C33 ---- *)
(* request r has resolved a live key whose daily quota is used up, from an *)
(* address that is over its hourly ceiling, and awaits its first check     *)
BothExhausted(r) ==
    /\ pc[r] = "ipUsage"
    /\ apiKeyInfo[r].id \in DOMAIN keys
    /\ keys[apiKeyInfo[r].id].daily_used >= keys[apiKeyInfo[r].id].daily_limit
    /\ IpUsage(rq[r].ip) >= IpLimit

(* C33: the key's budget check precedes the per-IP check.  A request with  *)
(* a valid, unpaused, unexpired key whose quota is exhausted, from an      *)
(* address over its ceiling, is rejected for the quota: the error raised   *)
(* is the quota one and the response is 429 'Daily quota exceeded'.        *)
C33_QuotaBeforeIpCeiling ==
    [][\A r \in Req :
          (BothExhausted(r) /\ pc'[r] # pc[r]) =>
              /\ pc'[r] = "done"
              /\ fx'[r].caught = ErrQuota
              /\ resp'[r].status = 429
              /\ resp'[r].error = "Daily quota exceeded" ]_vars

(* ---- C34 ---- *)
(* C34: on the success path the usage record is written before the quota   *)
(* increment.  In no reachable state, a rejected store write included, has *)
(* a request's increment of daily_used been applied while its usage record *)
(* has not been written.                                                   *)
C34_RecordBeforeIncrement ==
    \A r \in Req : fx[r].consumed > 0 => fx[r].logged > 0

(* ---- C35 ---- *)
(* C35: validateSession returns an identity only if, at that moment, a     *)
(* record is stored under the session id, the token in it is unexpired and *)
(* the user id of the token is the user id of the record; whenever it      *)
(* returns invalid it leaves the store, the record's time to live          *)
(* included, as it was.                                                    *)
C35_IdentityOnlyFromALiveRecord ==
    [][ (adm'.op = "validateSession" /\ now' = now) =>
          /\ adm'.valid =>
                /\ adm'.sid # NoSession
                /\ kvHas(kv, adm'.sid, now)
                /\ now < kv[adm'.sid].token.exp
                /\ kv[adm'.sid].token.userId = kv[adm'.sid].userId
          /\ ~adm'.valid => kv' = kv ]_vars

(* validateSession has returned invalid for a session whose token has run  *)
(* out and whose record is still stored, with the time to live it had      *)
C35_Witness ==
    /\ adm.op = "validateSession" /\ ~adm.valid
    /\ adm.sid \in DOMAIN kv
    /\ kv[adm.sid].present
    /\ kv[adm.sid].token.exp <= now
    /\ now < kv[adm.sid].expires
    /\ adm.destroyed = {}

(* ---- C36 ---- *)
(* C36: in every reachable state, under any interleaving of concurrent     *)
(* lookups that present the same key, the stored daily_used of each key is *)
(* at most its daily_limit.                                                *)
C36_UsedWithinLimit ==
    \A k \in DOMAIN keys : keys[k].daily_used <= keys[k].daily_limit

(* ---- C37 ---- *)
(* row k was inserted by create-key                                        *)
CreatedKey(k) == k \in DOMAIN keys \ KeyIds

(* C37: every key created through create-key can be used, also one created *)
(* without a user_id.  A lookup that presents the secret of a created key, *)
(* with a valid number and before the key's expiry, resolves the key at    *)
(* its key lookup and goes on to the rate checks: it is not answered as an *)
(* invalid credential.                                                     *)
C37_CreatedKeyResolves ==
    [][\A r \in Req, k \in DOMAIN keys :
          ( /\ CreatedKey(k) /\ Presents(r, k)
            /\ ~keys[k].is_paused /\ ~InThePast(keys[k].expires_at, now)
            /\ pc[r] = "getApiKey" /\ pc'[r] # "getApiKey" )
              => /\ apiKeyInfo'[r].id = k
                 /\ pc'[r] = "ipUsage" ]_vars

(* ---- C38 ---- *)
(* the usage records of an address written within the last hour            *)
RecordsInWindow(ip) ==
    Copies(log, {u \in DOMAIN log : u.ip_address = ip /\ u.created_at > now - TicksPerHour})

(* the key request r presents has no row, or a paused or an expired one    *)
KeyTurnedAway(r) ==
    \/ ~\E k \in DOMAIN keys : Presents(r, k)
    \/ \E k \in DOMAIN keys :
          Presents(r, k) /\ (keys[k].is_paused \/ InThePast(keys[k].expires_at, now))

(* C38: the per-IP count is the number of usage records of the address in  *)
(* the window.  The per-IP check turns a request away exactly when that    *)
(* number has reached the ceiling; and a request rejected for a missing    *)
(* parameter, a malformed number, an unknown key, a paused key or an       *)
(* expired key is finished before the per-IP check, writes no usage record *)
(* and is never rejected for the rate.                                     *)
C38_OnlyRecordedRequestsCount ==
    [][\A r \in Req :
          /\ (pc[r] = "ipUsage" /\ pc'[r] # "ipUsage") =>
                ((fx'[r].caught = ErrRateLimit) <=> (RecordsInWindow(rq[r].ip) >= IpLimit))
          /\ ( \/ pc[r] \in {"idle", "done"} /\ Acts(r) /\ TurnedAwayEarly(rq'[r])
               \/ pc[r] = "getApiKey" /\ pc'[r] # "getApiKey" /\ KeyTurnedAway(r) ) =>
                /\ pc'[r] = "done"
                /\ fx'[r].caught # ErrRateLimit
                /\ fx'[r].logged = 0
                /\ log' = log ]_vars

(* a lookup with a paused key has been answered while the address stood    *)
(* one record short of the ceiling, and no record has been added           *)
C38_Witness ==
    \E r \in Req :
        /\ pc[r] = "done" /\ resp[r].status = 403
        /\ rq[r].ip = "ip1"
        /\ RecordsInWindow("ip1") = IpLimit - 1
        /\ LogSize = InitialRecords

(* C39: an admin mutation (create-key, revoke-key, user create,            *)
(* activate/deactivate, change-password) called with a cookie for which    *)
(* validateSession returns nothing is answered 401 and leaves the key,     *)
(* user and usage tables as they were.                                     *)
AdminMutations == {"create-key", "revoke-key", "users", "change-password"}

C39_NoMutationWithoutSession ==
    [][ ( /\ now' = now
          /\ adm'.op \in AdminMutations
          /\ validateSession(adm'.sid, now) = NoToken )
        => ( /\ adm'.status = 401
             /\ keys' = keys
             /\ users' = users
             /\ log' = log ) ]_vars

(* change-password is refused with the cookie of a session that has run    *)
(* out, after a user was created with it                                   *)
C39_Witness ==
    /\ adm.op = "change-password"
    /\ adm.sid \in DOMAIN kv
    /\ ~adm.valid
    /\ adm.status = 401
    /\ Cardinality(DOMAIN users) = 2

====
